---- MODULE Spec2Model ----
(***************************************************************************)
(* Model of mini_compiler.py: Lexer -> Parser -> Codegen -> VM, driven by  *)
(* the REPL (one VM per session) and by the command-line entry point (one  *)
(* fresh VM, one line).                                                    *)
(*                                                                         *)
(* A source line is a sequence of lexemes (strings); the lexer classifies  *)
(* them into tokens, the recursive-descent parser builds the AST, the      *)
(* generator flattens it to bytecode and the VM runs the bytecode against  *)
(* its operand stack and environment, both fields of the VM object.        *)
(*                                                                         *)
(* Numbers are Python ints and floats.  A value is a record                *)
(* [n, d, f]: the rational n/d in lowest terms (d > 0), f = TRUE for a     *)
(* float.  Floats are kept to dyadic denominators and a bounded magnitude, *)
(* where IEEE arithmetic is exact; a result outside that range, and the    *)
(* float negative zero, is "Unrepresentable" and the model does not follow *)
(* the line further.                                                       *)
(***************************************************************************)
EXTENDS Integers, Sequences, FiniteSets, TLC

VARIABLES
    stack,      \* VM.stack
    env,        \* VM.env
    phase,      \* "prompt": REPL waiting for input; "argv": command line read, not yet run; "exit": process ended
    line,       \* the line handed to the last compile_and_run call (argv before it runs)
    ast,        \* what Parser.parse returned in the last call
    code,       \* what Codegen produced in the last call
    printed,    \* the values the last call printed
    err,        \* the exception the last call raised ("" when none)
    stack0,     \* VM.stack when the last call began
    env0,       \* VM.env when the last call began
    nlines      \* lines fed to this VM so far

vars == <<stack, env, phase, line, ast, code, printed, err, stack0, env0, nlines>>

---------------------------------------------------------------------------
(* Bounds *)

MaxVal == 600         \* magnitude bound of the numbers the model follows
MaxDenExp == 3        \* floats are followed while their denominator divides 2^MaxDenExp
MaxLines == 3         \* lines per REPL session
MaxOperands == 3      \* operands of the exhaustively enumerated operator chains

---------------------------------------------------------------------------
(* Host arithmetic (Python int / float) *)

Abs(a) == IF a < 0 THEN -a ELSE a

RECURSIVE GCD(_, _)
GCD(a, b) == IF b = 0 THEN a ELSE GCD(b, a % b)

RECURSIVE Pow2(_)
Pow2(k) == IF k = 0 THEN 1 ELSE 2 * Pow2(k - 1)

Limit == MaxVal * Pow2(MaxDenExp)

Norm(n, d, f) ==
    LET g == GCD(Abs(n), d)
    IN  IF g = 0 THEN [n |-> 0, d |-> 1, f |-> f]
        ELSE [n |-> n \div g, d |-> d \div g, f |-> f]

PyInt(n) == [n |-> n, d |-> 1, f |-> FALSE]

Representable(v) ==
    /\ Abs(v.n) <= MaxVal * v.d
    /\ \E k \in 0..MaxDenExp : v.d = Pow2(k)

\* integer power, cut off once the magnitude leaves the followed range
RECURSIVE IPowAcc(_, _, _)
IPowAcc(a, b, acc) ==
    IF b = 0 \/ Abs(acc) > Limit THEN acc ELSE IPowAcc(a, b - 1, acc * a)

IPow(a, b) ==
    IF b = 0 THEN 1
    ELSE IF a = 0 THEN 0
    ELSE IF a = 1 THEN 1
    ELSE IF a = -1 THEN (IF b % 2 = 0 THEN 1 ELSE -1)
    ELSE IPowAcc(a, b, 1)

Ok(v) == [err |-> IF Representable(v) THEN "" ELSE "Unrepresentable", v |-> v]
Raise(e) == [err |-> e, v |-> PyInt(0)]
Unrepresentable == Raise("Unrepresentable")

PyNeg(a) ==
    IF a.f /\ a.n = 0 THEN Unrepresentable      \* -0.0
    ELSE Ok([n |-> -a.n, d |-> a.d, f |-> a.f])

PyAdd(a, b) == Ok(Norm(a.n * b.d + b.n * a.d, a.d * b.d, a.f \/ b.f))

PySub(a, b) == Ok(Norm(a.n * b.d - b.n * a.d, a.d * b.d, a.f \/ b.f))

PyMul(a, b) ==
    IF (a.f \/ b.f) /\ a.n * b.n = 0 /\ (a.n < 0 \/ b.n < 0) THEN Unrepresentable   \* -0.0
    ELSE Ok(Norm(a.n * b.n, a.d * b.d, a.f \/ b.f))

\* a / b is true division: always a float, ZeroDivisionError on a zero divisor
PyDiv(a, b) ==
    IF b.n = 0 THEN Raise("ZeroDivisionError")
    ELSE IF a.n = 0 /\ b.n < 0 THEN Unrepresentable      \* -0.0
    ELSE LET s == IF b.n < 0 THEN -1 ELSE 1
         IN  Ok(Norm(s * a.n * b.d, a.d * Abs(b.n), TRUE))

\* a ** b: int for int ** non-negative int, float otherwise; zero to a
\* negative power raises; a fractional exponent leaves the followed range
PyPow(a, b) ==
    IF b.d # 1 THEN Unrepresentable
    ELSE IF b.n >= 0
         THEN Ok(Norm(IPow(a.n, b.n), IPow(a.d, b.n), a.f \/ b.f))
    ELSE IF a.n = 0 THEN Raise("ZeroDivisionError")
    ELSE LET s == IF a.n < 0 /\ (-b.n) % 2 = 1 THEN -1 ELSE 1
         IN  Ok(Norm(s * IPow(a.d, -b.n), IPow(Abs(a.n), -b.n), TRUE))

---------------------------------------------------------------------------
(* Lexer *)

Token(type, value, num) == [type |-> type, value |-> value, num |-> num]

NoNum == PyInt(0)

\* the numeric literals of the input vocabulary and what int()/float() make of them
IntLiterals == {"0", "1", "2", "3", "4", "5", "7", "8"}
FloatLiterals == {"0.5"}
Identifiers == {"x", "y", "print"}

IntOf(s) ==
    CASE s = "0" -> 0 [] s = "1" -> 1 [] s = "2" -> 2 [] s = "3" -> 3
      [] s = "4" -> 4 [] s = "5" -> 5 [] s = "7" -> 7 [] s = "8" -> 8

number(s) ==
    IF s \in FloatLiterals
    THEN Token("NUMBER", s, [n |-> 1, d |-> 2, f |-> TRUE])
    ELSE Token("NUMBER", s, PyInt(IntOf(s)))

ident(s) ==
    IF s = "print" THEN Token("PRINT", s, NoNum) ELSE Token("IDENT", s, NoNum)

\* the token of the lexeme starting at one position; type "" when the
\* lexer raises SyntaxError("Unexpected character")
lexeme(s) ==
    IF s \in IntLiterals \cup FloatLiterals THEN number(s)
    ELSE IF s \in Identifiers THEN ident(s)
    ELSE IF s = "+" THEN Token("PLUS", s, NoNum)
    ELSE IF s = "-" THEN Token("MINUS", s, NoNum)
    ELSE IF s = "*" THEN Token("MUL", s, NoNum)
    ELSE IF s = "/" THEN Token("DIV", s, NoNum)
    ELSE IF s = "^" THEN Token("POW", s, NoNum)
    ELSE IF s = "(" THEN Token("LPAREN", s, NoNum)
    ELSE IF s = ")" THEN Token("RPAREN", s, NoNum)
    ELSE IF s = "=" THEN Token("ASSIGN", s, NoNum)
    ELSE Token("", s, NoNum)

RECURSIVE tokensFrom(_, _)
tokensFrom(text, k) ==
    IF k > Len(text) THEN [err |-> "", toks |-> <<Token("EOF", "", NoNum)>>]
    ELSE LET tok == lexeme(text[k])
         IN  IF tok.type = "" THEN [err |-> "SyntaxError", toks |-> <<>>]
             ELSE LET rest == tokensFrom(text, k + 1)
                  IN  IF rest.err # "" THEN rest
                      ELSE [err |-> "", toks |-> <<tok>> \o rest.toks]

tokens(text) == tokensFrom(text, 1)

---------------------------------------------------------------------------
(* AST *)

Num(value) == [t |-> "Num", value |-> value]
Var(name) == [t |-> "Var", name |-> name]
BinOp(op, left, right) == [t |-> "BinOp", op |-> op, left |-> left, right |-> right]
UnaryOp(op, e) == [t |-> "UnaryOp", op |-> op, expr |-> e]
Assign(name, e) == [t |-> "Assign", name |-> name, expr |-> e]
PrintStmt(e) == [t |-> "PrintStmt", expr |-> e]
None == [t |-> "None"]

---------------------------------------------------------------------------
(* Parser: each production takes the token list and the cursor i and       *)
(* returns the node and the new cursor, or ok = FALSE for SyntaxError      *)

Parsed(node, i) == [ok |-> TRUE, node |-> node, i |-> i]
SyntaxError(i) == [ok |-> FALSE, node |-> None, i |-> i]

peek(toks, i) == toks[i]

at(toks, i, kind) == peek(toks, i).type = kind

eat(toks, i, kind) ==
    IF peek(toks, i).type # kind THEN SyntaxError(i) ELSE Parsed(None, i + 1)

\* a production's result r, once the token kind has been eaten after it
eatAfter(toks, r, kind) ==
    IF ~r.ok THEN r
    ELSE IF ~eat(toks, r.i, kind).ok THEN SyntaxError(r.i)
    ELSE Parsed(r.node, eat(toks, r.i, kind).i)

skipIf(toks, r, kind) ==
    IF ~r.ok THEN r
    ELSE IF at(toks, r.i, kind) THEN Parsed(r.node, r.i + 1)
    ELSE r

\* BinOp(op, l, r) of two parsed operands; a failed right operand is the failure
binNode(op, l, r) ==
    IF ~r.ok THEN r ELSE Parsed(BinOp(op, l.node, r.node), r.i)

unaryNode(op, r) ==
    IF ~r.ok THEN r ELSE Parsed(UnaryOp(op, r.node), r.i)

printNode(r) ==
    IF ~r.ok THEN r ELSE Parsed(PrintStmt(r.node), r.i)

assignNode(name, r) ==
    IF ~r.ok THEN r ELSE Parsed(Assign(name, r.node), r.i)

RECURSIVE expr(_, _), exprLoop(_, _), term(_, _), termLoop(_, _)
RECURSIVE power(_, _), powerRest(_, _), unary(_, _), primary(_, _)

\* a primary that takes the closing parenthesis when it is there
primary_lenient(toks, i) ==
    IF peek(toks, i).type = "NUMBER" THEN Parsed(Num(peek(toks, i).num), i + 1)
    ELSE IF peek(toks, i).type = "IDENT" THEN Parsed(Var(peek(toks, i).value), i + 1)
    ELSE IF peek(toks, i).type = "LPAREN" THEN skipIf(toks, expr(toks, i + 1), "RPAREN")
    ELSE SyntaxError(i)

primary(toks, i) ==
    IF peek(toks, i).type = "NUMBER" THEN Parsed(Num(peek(toks, i).num), i + 1)
    ELSE IF peek(toks, i).type = "IDENT" THEN Parsed(Var(peek(toks, i).value), i + 1)
    ELSE IF peek(toks, i).type = "LPAREN"
         THEN eatAfter(toks, expr(toks, i + 1), "RPAREN")
    ELSE SyntaxError(i)

\* a unary whose operand is a whole power, as in ordinary notation
unary_over_power(toks, i) ==
    IF at(toks, i, "PLUS") THEN power(toks, i + 1)
    ELSE IF at(toks, i, "MINUS") THEN unaryNode("-", power(toks, i + 1))
    ELSE primary(toks, i)

unary(toks, i) ==
    IF at(toks, i, "PLUS") THEN unary(toks, i + 1)
    ELSE IF at(toks, i, "MINUS") THEN unaryNode("-", unary(toks, i + 1))
    ELSE primary(toks, i)

\* power after its left operand l: the right operand is a power again
powerRest(toks, l) ==
    IF ~l.ok THEN l
    ELSE IF at(toks, l.i, "POW") THEN binNode("^", l, power(toks, l.i + 1))
    ELSE l

power(toks, i) == powerRest(toks, unary(toks, i))

\* the while loop of term: l is the tree built so far
termLoop(toks, l) ==
    IF ~l.ok THEN l
    ELSE IF at(toks, l.i, "MUL")
         THEN termLoop(toks, binNode("*", l, power(toks, l.i + 1)))
    ELSE IF at(toks, l.i, "DIV")
         THEN termLoop(toks, binNode("/", l, power(toks, l.i + 1)))
    ELSE l

term(toks, i) == termLoop(toks, power(toks, i))

\* the while loop of expr: l is the tree built so far
exprLoop(toks, l) ==
    IF ~l.ok THEN l
    ELSE IF at(toks, l.i, "PLUS")
         THEN exprLoop(toks, binNode("+", l, term(toks, l.i + 1)))
    ELSE IF at(toks, l.i, "MINUS")
         THEN exprLoop(toks, binNode("-", l, term(toks, l.i + 1)))
    ELSE l

expr(toks, i) == exprLoop(toks, term(toks, i))

\* the statement; the cursor starts at the first token
parse(toks) ==
    IF at(toks, 1, "PRINT")
    THEN IF at(toks, 2, "LPAREN")
         THEN printNode(eatAfter(toks, expr(toks, 3), "RPAREN"))
         ELSE printNode(expr(toks, 2))
    ELSE IF at(toks, 1, "IDENT") /\ peek(toks, 2).type = "ASSIGN"
         THEN assignNode(peek(toks, 1).value, expr(toks, 3))
    ELSE expr(toks, 1)

---------------------------------------------------------------------------
(* Code generator *)

Instr(op, num, name) == [op |-> op, num |-> num, name |-> name]

Emitted(c) == [err |-> "", code |-> c]

binopcode(op) ==
    IF op = "+" THEN "ADD"
    ELSE IF op = "-" THEN "SUB"
    ELSE IF op = "*" THEN "MUL"
    ELSE IF op = "/" THEN "DIV"
    ELSE IF op = "^" THEN "POW"
    ELSE ""

\* the code e of a subtree followed by one instruction
append(e, op, name) ==
    IF e.err # "" THEN e ELSE Emitted(e.code \o <<Instr(op, NoNum, name)>>)

\* the code of both operands, left then right
both(l, r) ==
    IF l.err # "" THEN l
    ELSE IF r.err # "" THEN [err |-> r.err, code |-> l.code \o r.code]
    ELSE Emitted(l.code \o r.code)

RECURSIVE gen(_)

\* a generator that leaves out the right operand of a BinOp
gen_no_right(node) ==
    IF node.t = "Num" THEN Emitted(<<Instr("PUSH", node.value, "")>>)
    ELSE IF node.t = "Var" THEN Emitted(<<Instr("LOAD", NoNum, node.name)>>)
    ELSE IF node.t = "UnaryOp" THEN append(gen(node.expr), "NEG", "")
    ELSE IF node.t = "BinOp" THEN append(gen(node.left), binopcode(node.op), "")
    ELSE IF node.t = "Assign" THEN append(gen(node.expr), "STORE", node.name)
    ELSE IF node.t = "PrintStmt" THEN append(gen(node.expr), "PRINT", "")
    ELSE [err |-> "RecursionError", code |-> <<>>]

gen(node) ==
    IF node.t = "Num" THEN Emitted(<<Instr("PUSH", node.value, "")>>)
    ELSE IF node.t = "Var" THEN Emitted(<<Instr("LOAD", NoNum, node.name)>>)
    ELSE IF node.t = "UnaryOp"
         THEN IF node.op = "-" THEN append(gen(node.expr), "NEG", "")
              ELSE [err |-> "NotImplementedError", code |-> <<>>]
    ELSE IF node.t = "BinOp"
         THEN IF binopcode(node.op) # ""
              THEN append(both(gen(node.left), gen(node.right)), binopcode(node.op), "")
              ELSE [err |-> "NotImplementedError", code |-> <<>>]
    ELSE IF node.t = "Assign" THEN append(gen(node.expr), "STORE", node.name)
    ELSE IF node.t = "PrintStmt" THEN append(gen(node.expr), "PRINT", "")
    \* no other node type exists: the else branch calls gen on the same node
    \* again and never returns
    ELSE [err |-> "RecursionError", code |-> <<>>]

---------------------------------------------------------------------------
(* Virtual machine: vm is [stack, env, printed, err] *)

Front(s) == SubSeq(s, 1, Len(s) - 1)
Last(s) == s[Len(s)]

Bind(en, name, val) ==
    [k \in DOMAIN en \cup {name} |-> IF k = name THEN val ELSE en[k]]

Failed(vm, stk, e) == [vm EXCEPT !.stack = stk, !.err = e]

apply(op, a, b) ==
    IF op = "ADD" THEN PyAdd(a, b)
    ELSE IF op = "SUB" THEN PySub(a, b)
    ELSE IF op = "MUL" THEN PyMul(a, b)
    ELSE IF op = "DIV" THEN PyDiv(a, b)
    ELSE PyPow(a, b)

push(ins, vm) == [vm EXCEPT !.stack = vm.stack \o <<ins.num>>]

load(ins, vm) ==
    IF ins.name \notin DOMAIN vm.env THEN Failed(vm, vm.stack, "NameError")
    ELSE [vm EXCEPT !.stack = vm.stack \o <<vm.env[ins.name]>>]

\* a STORE that rebinds the whole environment to the one name
store_clobber(ins, vm) ==
    IF Len(vm.stack) = 0 THEN Failed(vm, vm.stack, "IndexError")
    ELSE [vm EXCEPT !.stack = Front(vm.stack),
                    !.env = [k \in {ins.name} |-> Last(vm.stack)]]

store(ins, vm) ==
    IF Len(vm.stack) = 0 THEN Failed(vm, vm.stack, "IndexError")
    ELSE [vm EXCEPT !.stack = Front(vm.stack),
                    !.env = Bind(vm.env, ins.name, Last(vm.stack))]

neg(ins, vm) ==
    IF Len(vm.stack) = 0 THEN Failed(vm, vm.stack, "IndexError")
    ELSE IF PyNeg(Last(vm.stack)).err # ""
         THEN Failed(vm, Front(vm.stack), PyNeg(Last(vm.stack)).err)
    ELSE [vm EXCEPT !.stack = Front(vm.stack) \o <<PyNeg(Last(vm.stack)).v>>]

\* the result r of a op b goes onto what is left of the stack
pushResult(vm, rest, r) ==
    IF r.err # "" THEN Failed(vm, rest, r.err)
    ELSE [vm EXCEPT !.stack = rest \o <<r.v>>]

\* a binary instruction that takes the top of the stack for its left operand
binary_swapped(ins, vm) ==
    IF Len(vm.stack) = 0 THEN Failed(vm, vm.stack, "IndexError")
    ELSE IF Len(vm.stack) = 1 THEN Failed(vm, <<>>, "IndexError")
    ELSE pushResult(vm, Front(Front(vm.stack)),
                    apply(ins.op, Last(vm.stack), Last(Front(vm.stack))))

\* b, a = self.stack.pop(), self.stack.pop(); self.stack.append(a op b)
binary(ins, vm) ==
    IF Len(vm.stack) = 0 THEN Failed(vm, vm.stack, "IndexError")
    ELSE IF Len(vm.stack) = 1 THEN Failed(vm, <<>>, "IndexError")
    ELSE pushResult(vm, Front(Front(vm.stack)),
                    apply(ins.op, Last(Front(vm.stack)), Last(vm.stack)))

printTop(ins, vm) ==
    IF Len(vm.stack) = 0 THEN Failed(vm, vm.stack, "IndexError")
    ELSE [vm EXCEPT !.stack = Front(vm.stack),
                    !.printed = vm.printed \o <<Last(vm.stack)>>]

\* one iteration of the loop of VM.run
step(ins, vm) ==
    IF ins.op = "PUSH" THEN push(ins, vm)
    ELSE IF ins.op = "LOAD" THEN load(ins, vm)
    ELSE IF ins.op = "STORE" THEN store(ins, vm)
    ELSE IF ins.op = "NEG" THEN neg(ins, vm)
    ELSE IF ins.op \in {"ADD", "SUB", "MUL", "DIV", "POW"} THEN binary(ins, vm)
    ELSE IF ins.op = "PRINT" THEN printTop(ins, vm)
    ELSE Failed(vm, vm.stack, "RuntimeError")

\* the instruction's outcome with the first exception of the run kept
keepFirst(vm, r) == IF vm.err # "" THEN [r EXCEPT !.err = vm.err] ELSE r

\* a run that notes an exception and goes on with the next instruction
RECURSIVE run_on_error_resume(_, _)
run_on_error_resume(c, vm) ==
    IF c = <<>> THEN vm
    ELSE run_on_error_resume(Tail(c), keepFirst(vm, step(Head(c), [vm EXCEPT !.err = ""])))

\* the outcome r of the instruction Head(c), then the rest of the code
RECURSIVE run(_, _)
runRest(c, r) == IF r.err # "" THEN r ELSE run(Tail(c), r)

run(c, vm) ==
    IF c = <<>> THEN vm ELSE runRest(c, step(Head(c), vm))

---------------------------------------------------------------------------
(* compile_and_run: the outcome of one line on a VM with the given fields  *)

Outcome(vm, a, c) ==
    [stack |-> vm.stack, env |-> vm.env, printed |-> vm.printed, err |-> vm.err,
     ast |-> a, code |-> c]

compile_and_run(text, stk, en) ==
    LET vm0 == [stack |-> stk, env |-> en, printed |-> <<>>, err |-> ""]
        lx == tokens(text)
    IN  IF lx.err # "" THEN Outcome(Failed(vm0, stk, lx.err), None, <<>>)
        ELSE LET p == parse(lx.toks)
             IN  IF ~p.ok THEN Outcome(Failed(vm0, stk, "SyntaxError"), None, <<>>)
                 ELSE LET g == gen(p.node)
                      IN  IF g.err # "" THEN Outcome(Failed(vm0, stk, g.err), p.node, <<>>)
                          ELSE Outcome(run(g.code, vm0), p.node, g.code)

---------------------------------------------------------------------------
(* Input lines *)

Ops == {"+", "-", "*", "/", "^"}
ChainNums == {"0", "2", "3"}

\* operand (operator operand)* with k operands, no parentheses, no signs
RECURSIVE Chains(_)
Chains(k) ==
    IF k = 1 THEN {<<a>> : a \in ChainNums}
    ELSE {c \o <<o, a>> : c \in Chains(k - 1), o \in Ops, a \in ChainNums}

ChainExprs == UNION {Chains(k) : k \in 1..MaxOperands}

ParenOps == {"-", "*", "^"}
ParenNums == {"2", "3"}

ParenExprs ==
    {<<"(", a, o, b, ")", p, c>> : a \in ParenNums, o \in ParenOps, b \in ParenNums,
                                   p \in ParenOps, c \in ParenNums}
    \cup {<<a, o, "(", b, p, c, ")">> : a \in ParenNums, o \in ParenOps, b \in ParenNums,
                                        p \in ParenOps, c \in ParenNums}
    \cup {<<"(", a, ")", o, b>> : a \in ParenNums, o \in Ops, b \in ParenNums}
    \cup {<<"(", a, o, b, ")">> : a \in ParenNums, o \in Ops, b \in ParenNums}
    \cup {<<"(", "(", a, ")", o, b, ")">> : a \in ParenNums, o \in Ops, b \in ParenNums}

SignedExprs ==
    {<<"-", a, "^", b>> : a \in ChainNums, b \in ChainNums}
    \cup {<<s, a>> : s \in {"-", "+"}, a \in ChainNums \cup {"0.5"}}
    \cup {<<"-", "-", a>> : a \in ChainNums}
    \cup {<<a, o, "-", b>> : a \in ChainNums, o \in Ops, b \in ChainNums}

NameExprs ==
    {<<v>> : v \in {"x", "y"}}
    \cup {<<v, o, a>> : v \in {"x", "y"}, o \in Ops, a \in ChainNums}
    \cup {<<a, o, v>> : v \in {"x", "y"}, o \in Ops, a \in ChainNums}

DeleteAt(s, k) == SubSeq(s, 1, k - 1) \o SubSeq(s, k + 1, Len(s))

\* a well-formed expression with one of its parentheses removed
OneParenDropped ==
    UNION {{DeleteAt(e, k) : k \in {j \in 1..Len(e) : e[j] \in {"(", ")"}}} : e \in ParenExprs}

\* a well-formed expression followed by a closing parenthesis
ParenAppended == {e \o <<")">> : e \in Chains(1) \cup Chains(2)}

Malformed ==
    {<<>>, <<"+">>, <<"*", "2">>, <<"2", "+">>, <<"=", "2">>, <<"2", "3">>,
     <<"2", "(", "3">>, <<"2", "$">>, <<"2", "=", "3">>, <<"2", "^">>}

Statements(e) ==
    {e, <<"print">> \o e, <<"print", "(">> \o e \o <<")">>, <<"x", "=">> \o e}

Examples ==
    {<<"3", "+", "4">>,
     <<"print", "(", "2", "+", "3", ")", "*", "4">>,
     <<"x", "=", "(", "2", "+", "3", ")", "*", "4">>,
     <<"print", "2", "+", "3", "*", "4">>,
     <<"print", "2", "^", "3", "^", "2">>,
     <<"print", "8", "-", "3", "-", "2">>,
     <<"print", "7", "-", "2">>,
     <<"print", "-", "2", "^", "2">>,
     <<"print", "1", "/", "0">>,
     <<"(", "1", "+", "2">>,
     <<"1", "+", "2", ")">>,
     <<"x", "=", "1", ")">>,
     <<"print", "(", "1", ")", "+", "(", "2">>}

\* the lines given on the command line
ArgLines ==
    Examples
    \cup UNION {{e, <<"print">> \o e} : e \in ChainExprs}
    \cup UNION {Statements(e) : e \in Chains(1) \cup Chains(2) \cup ParenExprs
                                      \cup SignedExprs \cup NameExprs \cup OneParenDropped
                                      \cup ParenAppended \cup Malformed}

\* the lines typed into a REPL session
SessionExprs ==
    {<<"0">>, <<"2">>, <<"x">>, <<"y">>, <<"-", "y">>,
     <<"x", "+", "2">>, <<"2", "-", "y">>, <<"2", "/", "x">>}

SessionLines ==
    {<<"x", "=", "5">>, <<"print", "x", "+", "1">>}
    \cup UNION {{e, <<"print">> \o e, <<"x", "=">> \o e, <<"y", "=">> \o e} : e \in SessionExprs}

---------------------------------------------------------------------------
(* The REPL session and the command-line run *)

\* repl(): vm = VM(), nothing read yet
Init ==
    /\ stack = <<>>
    /\ env = <<>>
    /\ phase = "prompt"
    /\ line = <<>>
    /\ ast = None
    /\ code = <<>>
    /\ printed = <<>>
    /\ err = ""
    /\ stack0 = <<>>
    /\ env0 = <<>>
    /\ nlines = 0

\* __main__ with arguments: the line is joined from argv, no VM used yet
InitArgv ==
    /\ stack = <<>>
    /\ env = <<>>
    /\ phase = "argv"
    /\ line \in ArgLines
    /\ ast = None
    /\ code = <<>>
    /\ printed = <<>>
    /\ err = ""
    /\ stack0 = <<>>
    /\ env0 = <<>>
    /\ nlines = 0

\* the VM fields and the record of the call after compile_and_run(text, vm)
Call(text, stk, en) ==
    LET o == compile_and_run(text, stk, en)
    IN  /\ o.err # "Unrepresentable"
        /\ stack' = o.stack
        /\ env' = o.env
        /\ line' = text
        /\ ast' = o.ast
        /\ code' = o.code
        /\ printed' = o.printed
        /\ err' = o.err
        /\ stack0' = stk
        /\ env0' = en
        /\ nlines' = nlines + 1

\* one iteration of the REPL loop: the line goes through compile_and_run on
\* the session's VM; an exception is caught and reported, the loop goes on
repl(text) ==
    /\ phase = "prompt"
    /\ nlines < MaxLines
    /\ Call(text, stack, env)
    /\ UNCHANGED phase

\* a new session: repl() starts over with a fresh VM
NewSession ==
    /\ phase = "prompt"
    /\ nlines > 0
    /\ stack' = <<>>
    /\ env' = <<>>
    /\ line' = <<>>
    /\ ast' = None
    /\ code' = <<>>
    /\ printed' = <<>>
    /\ err' = ""
    /\ stack0' = <<>>
    /\ env0' = <<>>
    /\ nlines' = 0
    /\ UNCHANGED phase

\* __main__ with arguments: vm = VM(); compile_and_run(line, vm); exit
main ==
    /\ phase = "argv"
    /\ Call(line, <<>>, <<>>)
    /\ phase' = "exit"

Next == (\E text \in SessionLines : repl(text)) \/ NewSession

Spec == Init /\ [][Next]_vars

NextArgv == main

SpecArgv == InitArgv /\ [][NextArgv]_vars

---------------------------------------------------------------------------
(* Reference semantics used to state the properties *)

\* a call has been made and has returned or raised
Ran == nlines > 0

Value(n) == [n |-> n, d |-> 1, f |-> FALSE]

arith(op, a, b) ==
    IF op = "+" THEN PyAdd(a, b)
    ELSE IF op = "-" THEN PySub(a, b)
    ELSE IF op = "*" THEN PyMul(a, b)
    ELSE IF op = "/" THEN PyDiv(a, b)
    ELSE PyPow(a, b)

arith2(op, l, r) ==
    IF l.err # "" THEN l ELSE IF r.err # "" THEN r ELSE arith(op, l.v, r.v)

negate(e) == IF e.err # "" THEN e ELSE PyNeg(e.v)

\* the value of an expression tree in an environment, operands left to right
RECURSIVE Eval(_, _)
Eval(node, en) ==
    IF node.t = "Num" THEN [err |-> "", v |-> node.value]
    ELSE IF node.t = "Var"
         THEN IF node.name \in DOMAIN en THEN [err |-> "", v |-> en[node.name]]
              ELSE Raise("NameError")
    ELSE IF node.t = "UnaryOp" THEN negate(Eval(node.expr, en))
    ELSE arith2(node.op, Eval(node.left, en), Eval(node.right, en))

\* e is an expression by the grammar, to its last lexeme
WholeExpr(e) ==
    /\ tokens(e).err = ""
    /\ expr(tokens(e).toks, 1).ok
    /\ expr(tokens(e).toks, 1).i = Len(e) + 1

ExprValue(e, en) == Eval(expr(tokens(e).toks, 1).node, en)

\* operand (operator operand)*: integer literals joined by binary operators
IsChain(e) ==
    /\ Len(e) % 2 = 1
    /\ \A k \in 1..Len(e) : IF k % 2 = 1 THEN e[k] \in IntLiterals ELSE e[k] \in Ops

\* positions of the operators of a chain that belong to a set
OpsAt(e, S) == {k \in 1..Len(e) : k % 2 = 0 /\ e[k] \in S}
Max(S) == CHOOSE k \in S : \A j \in S : j <= k
Min(S) == CHOOSE k \in S : \A j \in S : k <= j

\* the value of a chain by precedence and associativity: split at the last
\* + or -, else at the last * or /, else at the first ^
RECURSIVE ChainValue(_)
SplitAt(e, k) ==
    arith2(e[k], ChainValue(SubSeq(e, 1, k - 1)), ChainValue(SubSeq(e, k + 1, Len(e))))

ChainValue(e) ==
    IF Len(e) = 1 THEN [err |-> "", v |-> Value(IntOf(e[1]))]
    ELSE IF OpsAt(e, {"+", "-"}) # {} THEN SplitAt(e, Max(OpsAt(e, {"+", "-"})))
    ELSE IF OpsAt(e, {"*", "/"}) # {} THEN SplitAt(e, Max(OpsAt(e, {"*", "/"})))
    ELSE SplitAt(e, Min(OpsAt(e, {"^"})))

\* nesting depth of the parentheses after the first k lexemes
RECURSIVE Depth(_, _)
Depth(s, k) ==
    IF k = 0 THEN 0
    ELSE Depth(s, k - 1) + (IF s[k] = "(" THEN 1 ELSE IF s[k] = ")" THEN -1 ELSE 0)

\* some parenthesis of the line has no partner
Unmatched(s) ==
    \/ Depth(s, Len(s)) # 0
    \/ \E k \in 1..Len(s) : Depth(s, k) < 0

InsertAt(s, k, x) == SubSeq(s, 1, k - 1) \o <<x>> \o SubSeq(s, k, Len(s))

\* the parser accepts the line and consumes it to its last lexeme
Complete(s) ==
    /\ tokens(s).err = ""
    /\ parse(tokens(s).toks).ok
    /\ parse(tokens(s).toks).i = Len(s) + 1

\* a complete statement with one closing parenthesis taken out
CloserDropped(s) ==
    /\ Depth(s, Len(s)) = 1
    /\ \E k \in 2..(Len(s) + 1) : Complete(InsertAt(s, k, ")"))

NoEffect ==
    /\ err = "SyntaxError"
    /\ ast = None
    /\ code = <<>>
    /\ printed = <<>>
    /\ env = env0
    /\ stack = stack0

\* what `x = E` followed by `print x` prints on a VM that starts with environment en
RoundTrip(e, en) ==
    compile_and_run(<<"print", "x">>,
                    compile_and_run(<<"x", "=">> \o e, <<>>, en).stack,
                    compile_and_run(<<"x", "=">> \o e, <<>>, en).env).printed

---------------------------------------------------------------------------
(* Properties *)

\* C1: every line that parses to a statement other than an Assignment
\* prints a value when it runs without error (its code ends in PRINT); the
\* bare expression 3+4 prints 7.
C1_NonAssignmentPrints ==
    /\ (Ran /\ err = "" /\ ast.t # "Assign") =>
           /\ Len(printed) = 1
           /\ code[Len(code)].op = "PRINT"
    /\ (Ran /\ line = <<"3", "+", "4">>) => printed = <<Value(7)>>

\* C2: the operand stack is empty when a line's execution starts and empty
\* again after every line that completes without error.
C2_StackEmptyBetweenLines ==
    Ran => /\ stack0 = <<>>
           /\ (err = "" => stack = <<>>)

\* C3: `print (2+3)*4` prints 20; a print whose expression starts with a
\* parenthesised group followed by more operators prints the value of the
\* whole expression.
C3_PrintWholeExpression ==
    /\ (Ran /\ line = <<"print", "(", "2", "+", "3", ")", "*", "4">>) =>
           printed = <<Value(20)>>
    /\ (Ran /\ Len(line) > 1 /\ line[1] = "print" /\ line[2] = "("
            /\ WholeExpr(Tail(line)) /\ ExprValue(Tail(line), env0).err = "") =>
           printed = <<ExprValue(Tail(line), env0).v>>

\* C4: `x = E` then `print x` prints what `print E` prints from the same
\* environment, for every valid expression E.
C4_RoundTrip ==
    (Ran /\ Len(line) > 1 /\ line[1] = "print" /\ WholeExpr(Tail(line))
         /\ ExprValue(Tail(line), env0).err # "Unrepresentable") =>
        printed = RoundTrip(Tail(line), env0)

\* C5: a line that fails with an undefined variable or a division by zero
\* prints nothing and leaves the environment as it was before the line.
C5_FailedLineHasNoEffect ==
    (Ran /\ err \in {"NameError", "ZeroDivisionError"}) =>
        /\ printed = <<>>
        /\ env = env0

\* an assignment to a bound name fails midway, after a push
C5_Witness ==
    /\ Ran
    /\ err \in {"NameError", "ZeroDivisionError"}
    /\ ast.t = "Assign"
    /\ ast.name \in DOMAIN env0
    /\ Len(stack) > Len(stack0)
    /\ env = env0

\* C6: no line makes the VM pop an empty stack or meet an unknown opcode,
\* whatever earlier lines left behind.
C6_NoInternalError == err \notin {"IndexError", "RuntimeError"}

\* a line runs to its end on a stack that an earlier line left non-empty
C6_Witness ==
    /\ nlines > 1
    /\ stack0 # <<>>
    /\ err = ""
    /\ ast.t = "PrintStmt"
    /\ ast.expr.t = "BinOp"
    /\ stack = stack0

\* C7: a fresh VM has an empty environment; a successful assignment binds
\* the assigned name to the value of its expression and keeps every other
\* binding; every other line keeps the environment; a print sees the
\* bindings of the earlier lines (after x = 5, print x+1 prints 6).
C7_EnvironmentFrame ==
    /\ ~Ran => env = <<>>
    /\ (Ran /\ err = "" /\ ast.t = "Assign") =>
           /\ line[2] = "="
           /\ DOMAIN env = DOMAIN env0 \cup {line[1]}
           /\ LET r == Eval(ast.expr, env0)
              IN  r.err = "" /\ env[line[1]] = r.v
           /\ \A k \in DOMAIN env0 \ {line[1]} : env[k] = env0[k]
    /\ (Ran /\ ~(err = "" /\ ast.t = "Assign")) => env = env0
    /\ (Ran /\ err = "" /\ ast.t = "PrintStmt") =>
           LET r == Eval(ast.expr, env0)
           IN  r.err = "" /\ printed = <<r.v>>
    /\ (Ran /\ line = <<"print", "x", "+", "1">> /\ "x" \in DOMAIN env0
            /\ env0["x"] = Value(5)) => printed = <<Value(6)>>

\* print x+1 prints 6 on the VM where x = 5 ran before, next to another binding
C7_Witness ==
    /\ nlines > 2
    /\ line = <<"print", "x", "+", "1">>
    /\ DOMAIN env0 = {"x", "y"}
    /\ env0["x"] = Value(5)
    /\ printed = <<Value(6)>>
    /\ env = env0

\* C8: -a^b parses as BinOp(^, UnaryOp(-, a), b) and generates
\* PUSH a; NEG; PUSH b; POW; print -2^2 prints 4.
C8_SignBindsTighterThanPower ==
    /\ \A a \in ChainNums, b \in ChainNums :
           (Ran /\ line = <<"-", a, "^", b>>) =>
               /\ ast = BinOp("^", UnaryOp("-", Num(Value(IntOf(a)))), Num(Value(IntOf(b))))
               /\ code = <<Instr("PUSH", Value(IntOf(a)), ""), Instr("NEG", NoNum, ""),
                           Instr("PUSH", Value(IntOf(b)), ""), Instr("POW", NoNum, "")>>
    /\ (Ran /\ line = <<"print", "-", "2", "^", "2">>) => printed = <<Value(4)>>
    /\ (Ran /\ line = <<"print", "-", "3", "^", "3">>) => printed = <<Value(-27)>>

C8_Witness ==
    /\ Ran
    /\ line = <<"print", "-", "2", "^", "2">>
    /\ ast.expr.op = "^"
    /\ printed = <<Value(4)>>

\* C9: print E, for a parenthesis-free chain E of integer literals and
\* binary operators, prints the value of E grouped by precedence (^ over
\* * / over + -), with + - * / grouping to the left and ^ to the right, each
\* operation computing left op right; it prints nothing when that value
\* divides by zero.
C9_PrecedenceAndAssociativity ==
    /\ (Ran /\ Len(line) > 1 /\ line[1] = "print" /\ IsChain(Tail(line))) =>
           LET r == ChainValue(Tail(line))
           IN  \/ /\ r.err = ""
                  /\ err = ""
                  /\ printed = <<r.v>>
               \/ /\ r.err = "ZeroDivisionError"
                  /\ err = "ZeroDivisionError"
                  /\ printed = <<>>
    /\ (Ran /\ line = <<"print", "2", "+", "3", "*", "4">>) => printed = <<Value(14)>>
    /\ (Ran /\ line = <<"print", "2", "^", "3", "^", "2">>) => printed = <<Value(512)>>
    /\ (Ran /\ line = <<"print", "8", "-", "3", "-", "2">>) => printed = <<Value(3)>>
    /\ (Ran /\ line = <<"print", "7", "-", "2">>) => printed = <<Value(5)>>

C9_Witness ==
    /\ Ran
    /\ line = <<"print", "2", "^", "3", "^", "2">>
    /\ printed = <<Value(512)>>

\* C10 as stated: every line with an unmatched parenthesis, opening or
\* closing, fails in the parser with no AST, no code run, nothing printed
\* and the environment unchanged.
C10_UnmatchedParenFails == (Ran /\ Unmatched(line)) => NoEffect

\* C10 amended: a complete statement from which one closing parenthesis is
\* removed fails in the parser with no AST, no code run, nothing printed
\* and the VM unchanged.
C10_UnclosedParenFails == (Ran /\ CloserDropped(line)) => NoEffect

C10_Witness ==
    /\ Ran
    /\ line = <<"(", "1", "+", "2">>
    /\ CloserDropped(line)
    /\ NoEffect

====
